---- MODULE Spec2Model ----
(***************************************************************************)
(* The `build` task of fabfile.py as a state machine.  One run of `build`  *)
(* is a sequential process; pc is its position.  Every external            *)
(* invocation (fabric `local`) and every filesystem operation appends a    *)
(* record to `trace`.  The exit status of an external tool, whether a      *)
(* successful xcodebuild left the expected library in its build directory, *)
(* and the order in which a dict is enumerated are choices of the          *)
(* environment.                                                            *)
(***************************************************************************)
EXTENDS Integers, Sequences, FiniteSets, TLC

VARIABLES
  pc,              \* position of the run inside build()
  env_developer_dir, \* env.developer_dir
  dev_arg,         \* the dir the developer_dir task was called with, None if not called
  outdir_arg,      \* the outdir the task was called with (never reassigned)
  outdir,          \* build(outdir=...): the argument, then the absolute path
  device_sdk,      \* build(device_sdk=...)
  simulator_sdk,   \* build(simulator_sdk=...)
  kwargs,          \* build(**kwargs): the preprocessor overrides
  out_subdir,      \* name of the output subdirectory
  xflags,          \* formatted_xcode_preprocessor_flags
  opencv_root,     \* output of git rev-parse --show-toplevel
  temp_dir,        \* tempfile.mkdtemp() + os.sep, "" before it is made
  sdk_dir,         \* os.path.join(outdir, out_subdir), "" before it is set
  sdk_isdir,       \* whether the directory the run resolves to exists
  sdk_files,       \* files below that directory, relative paths
  work_dirs,       \* directories made below temp_dir
  work_libs,       \* library files present below temp_dir
  ti,              \* index into schemes_and_targets
  ai,              \* index into arch_to_sdk
  arch_build_dirs, \* dict arch key -> directory, per target
  lipo_build_dirs, \* dict build_config -> directory, per target
  trace,           \* every invocation and filesystem operation, in order
  exit_status,     \* process exit status, -1 while running
  abort_kind       \* why the run ended early

vars == <<pc, env_developer_dir, dev_arg, outdir_arg, outdir, device_sdk, simulator_sdk, kwargs, out_subdir,
          xflags, opencv_root, temp_dir, sdk_dir, sdk_isdir, sdk_files, work_dirs,
          work_libs, ti, ai, arch_build_dirs, lipo_build_dirs, trace,
          exit_status, abort_kind>>

-----------------------------------------------------------------------------
(* Bounds and input sets *)

\* Most files a tree already lying at the resolved destination holds.
MaxStale == 2

None == "<None>"

FlagKeys == {"A", "B"}

FlagValues == {"1", "1_B-1"}

OutdirArgs == {None, "", "~/sdk"}

DeviceSdkArgs == {None, "dev9"}

SimulatorSdkArgs == {None, "sim9"}

DescribeOutputs == {"iOS_3.0-dirty"}

RevParseOutputs == {"/repo"}

\* Output of `xcode-select -p` when the fabfile is loaded.
xcode_select_p == "/Applications/Xcode.app/Contents/Developer"

\* Directories that exist, and the arguments the developer_dir task is given.
ExistingPaths == {xcode_select_p, "/Applications/Xcode6.2.app"}

DeveloperDirArgs == {"/Applications/Xcode6.2.app", "/no/such/Xcode.app"}

ReturnCodes == {0, 65}

StalePool == {"OpenCV/libopencv_core.a", "OpenCV/libold.a", "notes.txt"}

\* What may already lie at the resolved destination: nothing, or a tree.
StaleTrees == {S \in SUBSET StalePool : Cardinality(S) <= MaxStale}

Overrides == UNION {[K -> FlagValues] : K \in SUBSET FlagKeys}

\* The orders in which a dict with these keys may be enumerated (iteritems).
Orders(d) ==
  LET n == Cardinality(DOMAIN d)
  IN  {s \in [1..n -> DOMAIN d] : \A i, j \in 1..n : i # j => s[i] # s[j]}

-----------------------------------------------------------------------------
(* Pure helpers *)

RECURSIVE Join(_, _)
Join(sep, parts) ==
  IF parts = <<>> THEN ""
  ELSE IF Len(parts) = 1 THEN parts[1]
  ELSE parts[1] \o sep \o Join(sep, Tail(parts))

path_join(a, b) ==
  IF a = "" THEN b
  ELSE IF SubSeq(a, Len(a), Len(a)) = "/" THEN a \o b
  ELSE a \o "/" \o b

abspath_expanduser(p) ==
  IF Len(p) >= 2 /\ SubSeq(p, 1, 2) = "~/"
  THEN path_join("/home/user", SubSeq(p, 3, Len(p)))
  ELSE IF Len(p) >= 1 /\ SubSeq(p, 1, 1) = "/" THEN p
  ELSE path_join("/cwd", p)

EndsWithDirty(s) ==
  Len(s) >= 6 /\ SubSeq(s, Len(s) - 5, Len(s)) = "-dirty"

version_str(describe_out, show_dirty) ==
  LET v == SubSeq(describe_out, 5, Len(describe_out))
  IN  IF ~show_dirty /\ EndsWithDirty(v) THEN SubSeq(v, 1, Len(v) - 6) ELSE v

\* Variant: the separator of the directory suffix used for the definitions.
format_flags_dash(d, order) ==
  Join(" ", [i \in 1..Len(order) |-> order[i] \o "-" \o d[order[i]]])

format_flags(d, order) ==
  Join(" ", [i \in 1..Len(order) |-> order[i] \o "=" \o d[order[i]]])

out_subdir_suffix(d, order) ==
  LET s == Join("_", [i \in 1..Len(order) |-> order[i] \o "-" \o d[order[i]]])
  IN  IF s # "" THEN "_" \o s ELSE s

schemes_and_targets ==
  << <<"opencv_core", "opencv_core">>, <<"opencv_imgproc", "opencv_imgproc">> >>

\* Variant: the simulator slices built against the device SDK.
arch_to_sdk_device(sim) == << <<"i386", device_sdk>>, <<"x86_64", device_sdk>> >>

arch_to_sdk(sim) == << <<"i386", sim>>, <<"x86_64", sim>> >>

build_config == "Release"

\* Variant: the "lib" prefix forgotten.
libname_no_prefix(target) == target \o ".a"

libname(target) == "lib" \o target \o ".a"

\* Variant: `outdir is None` in place of `not outdir`.
not_outdir_none_only(o) == o = None

not_outdir(o) == o = None \/ o = ""

\* Variant: the path is taken without looking at the filesystem.
path_exists_unchecked(p) == TRUE

path_exists(p) == p \in ExistingPaths

\* Variant: warn_only, a failing command is reported and the run goes on.
local_aborts_warn_only(rc) == FALSE

local_aborts(rc) == rc # 0

\* Variant: the existing tree is kept.
rmtree_skipped(isdir, files) == files

rmtree_if_isdir(isdir, files) == IF isdir THEN {} ELSE files

lipo_keys == {"archive", "i386", "x86_64", "universal"}

\* Variant: the x86_64 slice left out of the lipo command.
lipo_inputs_two(dirs, lib) ==
  << <<"", path_join(dirs["archive"], lib)>>,
     <<"i386", path_join(dirs["i386"], lib)>> >>

\* Variant: the two simulator slices read from each other's directory.
lipo_inputs_swapped(dirs, lib) ==
  << <<"", path_join(dirs["archive"], lib)>>,
     <<"i386", path_join(dirs["x86_64"], lib)>>,
     <<"x86_64", path_join(dirs["i386"], lib)>> >>

\* The inputs of the lipo command: (architecture tag, library path).
lipo_inputs(dirs, lib) ==
  << <<"", path_join(dirs["archive"], lib)>>,
     <<"i386", path_join(dirs["i386"], lib)>>,
     <<"x86_64", path_join(dirs["x86_64"], lib)>> >>

\* Variant: the target left out of the work path.
work_subdir_no_target(tmp, scheme, target, leaf) ==
  path_join(path_join(path_join(tmp, build_config), scheme), leaf)

work_subdir(tmp, scheme, target, leaf) ==
  path_join(path_join(path_join(path_join(tmp, build_config), scheme), target), leaf)

\* Variant: the library is copied right after lipo, strip comes after the copy.
after_step_stage_early(step, a, t) ==
  CASE step = "clean"      -> [pc |-> "archive", ai |-> a, ti |-> t]
    [] step = "archive"    -> [pc |-> "arch_clean", ai |-> 1, ti |-> t]
    [] step = "arch_clean" -> [pc |-> "arch_build", ai |-> a, ti |-> t]
    [] step = "arch_build" -> IF a < Len(arch_to_sdk(None))
                              THEN [pc |-> "arch_clean", ai |-> a + 1, ti |-> t]
                              ELSE [pc |-> "lipo", ai |-> a, ti |-> t]
    [] step = "lipo"       -> [pc |-> "stage", ai |-> a, ti |-> t]
    [] step = "stage"      -> [pc |-> "strip", ai |-> a, ti |-> t]
    [] step = "strip"      -> IF t < Len(schemes_and_targets)
                              THEN [pc |-> "clean", ai |-> a, ti |-> t + 1]
                              ELSE [pc |-> "done", ai |-> a, ti |-> t]

\* Variant: the secondary architectures are built before the archive.
after_step_archs_first(step, a, t) ==
  CASE step = "clean"      -> [pc |-> "arch_clean", ai |-> 1, ti |-> t]
    [] step = "arch_clean" -> [pc |-> "arch_build", ai |-> a, ti |-> t]
    [] step = "arch_build" -> IF a < Len(arch_to_sdk(None))
                              THEN [pc |-> "arch_clean", ai |-> a + 1, ti |-> t]
                              ELSE [pc |-> "archive", ai |-> a, ti |-> t]
    [] step = "archive"    -> [pc |-> "lipo", ai |-> a, ti |-> t]
    [] step = "lipo"       -> [pc |-> "strip", ai |-> a, ti |-> t]
    [] step = "strip"      -> [pc |-> "stage", ai |-> a, ti |-> t]
    [] step = "stage"      -> IF t < Len(schemes_and_targets)
                              THEN [pc |-> "clean", ai |-> a, ti |-> t + 1]
                              ELSE [pc |-> "done", ai |-> a, ti |-> t]

\* Variant: the strip step left out.
after_step_no_strip(step, a, t) ==
  CASE step = "clean"      -> [pc |-> "archive", ai |-> a, ti |-> t]
    [] step = "archive"    -> [pc |-> "arch_clean", ai |-> 1, ti |-> t]
    [] step = "arch_clean" -> [pc |-> "arch_build", ai |-> a, ti |-> t]
    [] step = "arch_build" -> IF a < Len(arch_to_sdk(None))
                              THEN [pc |-> "arch_clean", ai |-> a + 1, ti |-> t]
                              ELSE [pc |-> "lipo", ai |-> a, ti |-> t]
    [] step = "lipo"       -> [pc |-> "stage", ai |-> a, ti |-> t]
    [] step = "strip"      -> [pc |-> "stage", ai |-> a, ti |-> t]
    [] step = "stage"      -> IF t < Len(schemes_and_targets)
                              THEN [pc |-> "clean", ai |-> a, ti |-> t + 1]
                              ELSE [pc |-> "done", ai |-> a, ti |-> t]

\* The statement that follows `step` in the loops of build().
after_step(step, a, t) ==
  CASE step = "clean"      -> [pc |-> "archive", ai |-> a, ti |-> t]
    [] step = "archive"    -> [pc |-> "arch_clean", ai |-> 1, ti |-> t]
    [] step = "arch_clean" -> [pc |-> "arch_build", ai |-> a, ti |-> t]
    [] step = "arch_build" -> IF a < Len(arch_to_sdk(None))
                              THEN [pc |-> "arch_clean", ai |-> a + 1, ti |-> t]
                              ELSE [pc |-> "lipo", ai |-> a, ti |-> t]
    [] step = "lipo"       -> [pc |-> "strip", ai |-> a, ti |-> t]
    [] step = "strip"      -> [pc |-> "stage", ai |-> a, ti |-> t]
    [] step = "stage"      -> IF t < Len(schemes_and_targets)
                              THEN [pc |-> "clean", ai |-> a, ti |-> t + 1]
                              ELSE [pc |-> "done", ai |-> a, ti |-> t]

-----------------------------------------------------------------------------
(* Trace records *)

\* The commands of the target loop run under shell_env(DEVELOPER_DIR=...).
shell_env_ops == {"clean", "archive", "build", "lipo", "strip"}

Rec(op, scheme, target, arch, sdk, dir, defines, inputs, rc) ==
  [op |-> op, scheme |-> scheme, target |-> target, arch |-> arch, sdk |-> sdk,
   dir |-> dir, defines |-> defines, inputs |-> inputs, rc |-> rc,
   DEVELOPER_DIR |-> IF op \in shell_env_ops THEN env_developer_dir ELSE ""]

FsRec(op, target, dir) == Rec(op, "", target, "", "", dir, "", <<>>, 0)

ExternalOps == {"git describe", "git rev-parse", "clean", "archive", "build",
                "lipo", "strip"}

scheme_of(t) == schemes_and_targets[t][1]

target_of(t) == schemes_and_targets[t][2]

-----------------------------------------------------------------------------
(* The run *)

Init ==
  /\ pc = "validate"
  /\ env_developer_dir = xcode_select_p
  /\ dev_arg = None
  /\ outdir_arg \in OutdirArgs
  /\ outdir = outdir_arg
  /\ device_sdk \in DeviceSdkArgs
  /\ simulator_sdk \in SimulatorSdkArgs
  /\ kwargs \in Overrides
  /\ out_subdir = ""
  /\ xflags = ""
  /\ opencv_root = ""
  /\ temp_dir = ""
  /\ sdk_dir = ""
  /\ \/ sdk_isdir = FALSE /\ sdk_files = {}
     \/ sdk_isdir = TRUE /\ sdk_files \in StaleTrees
  /\ work_dirs = {}
  /\ work_libs = {}
  /\ ti = 1
  /\ ai = 1
  /\ arch_build_dirs = <<>>
  /\ lipo_build_dirs = <<>>
  /\ trace = <<>>
  /\ exit_status = -1
  /\ abort_kind = ""

\* fabric abort(), and an uncaught Python exception: the process exits with 1.
Exit(kind) ==
  /\ pc' = "aborted"
  /\ exit_status' = 1
  /\ abort_kind' = kind

Goto(step) ==
  LET n == after_step(step, ai, ti)
  IN  /\ pc' = n.pc
      /\ ai' = n.ai
      /\ ti' = n.ti
      /\ exit_status' = IF n.pc = "done" THEN 0 ELSE exit_status
      /\ abort_kind' = abort_kind

\* local(cmd): the command runs, and a non-zero return code aborts.
Local(rec, step) ==
  /\ trace' = Append(trace, rec)
  /\ IF local_aborts(rec.rc)
     THEN Exit("local") /\ UNCHANGED <<ai, ti>>
     ELSE Goto(step)

\* The developer_dir task, when the task list names it before build.
DeveloperDir ==
  /\ pc = "validate"
  /\ dev_arg = None
  /\ \E dir \in DeveloperDirArgs :
       /\ dev_arg' = dir
       /\ IF path_exists(dir)
          THEN /\ env_developer_dir' = dir
               /\ UNCHANGED <<pc, exit_status, abort_kind>>
          ELSE /\ pc' = "exited"
               /\ exit_status' = 1
               /\ abort_kind' = "developer_dir"
               /\ UNCHANGED env_developer_dir
  /\ UNCHANGED <<outdir_arg, outdir, device_sdk, simulator_sdk, kwargs, out_subdir,
                 xflags, opencv_root, temp_dir, sdk_dir, sdk_isdir, sdk_files,
                 work_dirs, work_libs, ti, ai, arch_build_dirs, lipo_build_dirs,
                 trace>>

Validate ==
  /\ pc = "validate"
  /\ IF not_outdir(outdir)
     THEN /\ Exit("config")
          /\ UNCHANGED outdir
     ELSE /\ outdir' = abspath_expanduser(outdir)
          /\ pc' = "describe"
          /\ UNCHANGED <<exit_status, abort_kind>>
  /\ UNCHANGED <<device_sdk, simulator_sdk, outdir_arg, env_developer_dir, dev_arg, kwargs, out_subdir, xflags,
                 opencv_root, temp_dir, sdk_dir, sdk_isdir, sdk_files, work_dirs,
                 work_libs, ti, ai, arch_build_dirs, lipo_build_dirs, trace>>

Describe ==
  /\ pc = "describe"
  /\ \E rc \in ReturnCodes, out \in DescribeOutputs, order \in Orders(kwargs) :
       /\ trace' = Append(trace, Rec("git describe", "", "", "", "", "", "", <<>>, rc))
       /\ IF local_aborts(rc)
          THEN /\ Exit("local")
               /\ UNCHANGED <<out_subdir, xflags, device_sdk, simulator_sdk>>
          ELSE /\ out_subdir' = "opencv_ios_sdk_" \o version_str(out, TRUE)
               /\ xflags' = format_flags(kwargs, order)
               /\ device_sdk' = IF device_sdk = None THEN "iphoneos" ELSE device_sdk
               /\ simulator_sdk' =
                    IF simulator_sdk = None THEN "iphonesimulator" ELSE simulator_sdk
               /\ pc' = "rev_parse"
               /\ UNCHANGED <<exit_status, abort_kind>>
  /\ UNCHANGED <<outdir, outdir_arg, env_developer_dir, dev_arg, kwargs, opencv_root, temp_dir, sdk_dir, sdk_isdir,
                 sdk_files, work_dirs, work_libs, ti, ai, arch_build_dirs,
                 lipo_build_dirs>>

RevParse ==
  /\ pc = "rev_parse"
  /\ \E rc \in ReturnCodes, out \in RevParseOutputs :
       /\ trace' = Append(trace, Rec("git rev-parse", "", "", "", "", "", "", <<>>, rc))
       /\ IF local_aborts(rc)
          THEN /\ Exit("local")
               /\ UNCHANGED opencv_root
          ELSE /\ opencv_root' = out
               /\ pc' = "mkdtemp"
               /\ UNCHANGED <<exit_status, abort_kind>>
  /\ UNCHANGED <<outdir, device_sdk, simulator_sdk, outdir_arg, env_developer_dir, dev_arg, kwargs, out_subdir, xflags,
                 temp_dir, sdk_dir, sdk_isdir, sdk_files, work_dirs, work_libs,
                 ti, ai, arch_build_dirs, lipo_build_dirs>>

Mkdtemp ==
  /\ pc = "mkdtemp"
  /\ temp_dir' = "/tmp/tmpXXXXXX" \o "/"
  /\ trace' = Append(trace, FsRec("mkdtemp", "", temp_dir'))
  /\ pc' = "assemble"
  /\ UNCHANGED <<outdir, device_sdk, simulator_sdk, outdir_arg, env_developer_dir, dev_arg, kwargs, out_subdir, xflags,
                 opencv_root, sdk_dir, sdk_isdir, sdk_files, work_dirs, work_libs,
                 ti, ai, arch_build_dirs, lipo_build_dirs, exit_status, abort_kind>>

Assemble ==
  /\ pc = "assemble"
  /\ \E order \in Orders(kwargs) :
       /\ out_subdir' = out_subdir \o out_subdir_suffix(kwargs, order)
       /\ sdk_dir' = path_join(outdir, out_subdir')
  /\ sdk_files' = rmtree_if_isdir(sdk_isdir, sdk_files)
  /\ sdk_isdir' = TRUE
  /\ trace' = trace
              \o (IF sdk_isdir THEN <<FsRec("rmtree", "", sdk_dir')>> ELSE <<>>)
              \o <<FsRec("makedirs", "", path_join(sdk_dir', "OpenCV"))>>
  /\ pc' = IF Len(schemes_and_targets) > 0 THEN "clean" ELSE "done"
  /\ exit_status' = IF Len(schemes_and_targets) > 0 THEN exit_status ELSE 0
  /\ ti' = 1
  /\ UNCHANGED <<outdir, device_sdk, simulator_sdk, outdir_arg, env_developer_dir, dev_arg, kwargs, xflags, opencv_root,
                 temp_dir, work_dirs, work_libs, ai, arch_build_dirs,
                 lipo_build_dirs, abort_kind>>

\* os.makedirs(d) raises OSError when d exists.
Makedirs(d) == d \notin work_dirs

Clean ==
  /\ pc = "clean"
  /\ arch_build_dirs' = <<>>
  /\ lipo_build_dirs' = <<>>
  /\ \E rc \in ReturnCodes :
       Local(Rec("clean", scheme_of(ti), target_of(ti), "", "", "", "", <<>>, rc),
             "clean")
  /\ UNCHANGED <<outdir, device_sdk, simulator_sdk, outdir_arg, env_developer_dir, dev_arg, kwargs, out_subdir, xflags,
                 opencv_root, temp_dir, sdk_dir, sdk_isdir, sdk_files, work_dirs,
                 work_libs>>

Archive ==
  /\ pc = "archive"
  /\ LET build_dir == work_subdir(temp_dir, scheme_of(ti), target_of(ti), "Archive")
     IN  /\ arch_build_dirs' = ("archive" :> build_dir) @@ arch_build_dirs
         /\ IF ~Makedirs(build_dir)
            THEN /\ Exit("OSError")
                 /\ UNCHANGED <<work_dirs, work_libs, trace, ai, ti>>
            ELSE /\ work_dirs' = work_dirs \cup {build_dir}
                 /\ \E rc \in ReturnCodes, produced \in BOOLEAN :
                      /\ work_libs' =
                           IF produced
                           THEN work_libs \cup {path_join(build_dir, libname(target_of(ti)))}
                           ELSE work_libs
                      /\ LET r == Rec("archive", scheme_of(ti), target_of(ti), "", "",
                                      build_dir, "", <<>>, rc)
                         IN  /\ trace' = trace \o <<FsRec("makedirs", target_of(ti), build_dir), r>>
                             /\ IF local_aborts(rc)
                                THEN Exit("local") /\ UNCHANGED <<ai, ti>>
                                ELSE Goto("archive")
  /\ UNCHANGED <<outdir, device_sdk, simulator_sdk, outdir_arg, env_developer_dir, dev_arg, kwargs, out_subdir, xflags,
                 opencv_root, temp_dir, sdk_dir, sdk_isdir, sdk_files,
                 lipo_build_dirs>>

ArchClean ==
  /\ pc = "arch_clean"
  /\ LET arch == arch_to_sdk(simulator_sdk)[ai][1]
         sdk  == arch_to_sdk(simulator_sdk)[ai][2]
     IN  \E rc \in ReturnCodes :
           Local(Rec("clean", scheme_of(ti), target_of(ti), arch, sdk, "", "", <<>>, rc),
                 "arch_clean")
  /\ UNCHANGED <<outdir, device_sdk, simulator_sdk, outdir_arg, env_developer_dir, dev_arg, kwargs, out_subdir, xflags,
                 opencv_root, temp_dir, sdk_dir, sdk_isdir, sdk_files, work_dirs,
                 work_libs, arch_build_dirs, lipo_build_dirs>>

ArchBuild ==
  /\ pc = "arch_build"
  /\ LET arch == arch_to_sdk(simulator_sdk)[ai][1]
         sdk  == arch_to_sdk(simulator_sdk)[ai][2]
         build_dir == work_subdir(temp_dir, scheme_of(ti), target_of(ti), arch)
     IN  /\ arch_build_dirs' = (arch :> build_dir) @@ arch_build_dirs
         /\ IF ~Makedirs(build_dir)
            THEN /\ Exit("OSError")
                 /\ UNCHANGED <<work_dirs, work_libs, trace, ai, ti>>
            ELSE /\ work_dirs' = work_dirs \cup {build_dir}
                 /\ \E rc \in ReturnCodes, produced \in BOOLEAN :
                      /\ work_libs' =
                           IF produced
                           THEN work_libs \cup {path_join(build_dir, libname(target_of(ti)))}
                           ELSE work_libs
                      /\ LET r == Rec("build", scheme_of(ti), target_of(ti), arch, sdk,
                                      build_dir, xflags, <<>>, rc)
                         IN  /\ trace' = trace \o <<FsRec("makedirs", target_of(ti), build_dir), r>>
                             /\ IF local_aborts(rc)
                                THEN Exit("local") /\ UNCHANGED <<ai, ti>>
                                ELSE Goto("arch_build")
  /\ UNCHANGED <<outdir, device_sdk, simulator_sdk, outdir_arg, env_developer_dir, dev_arg, kwargs, out_subdir, xflags,
                 opencv_root, temp_dir, sdk_dir, sdk_isdir, sdk_files,
                 lipo_build_dirs>>

Lipo ==
  /\ pc = "lipo"
  /\ LET lipo_dir == work_subdir(temp_dir, scheme_of(ti), target_of(ti), "universal")
         dirs == ("universal" :> lipo_dir) @@ arch_build_dirs
         lib == libname(target_of(ti))
     IN  /\ lipo_build_dirs' = (build_config :> lipo_dir) @@ lipo_build_dirs
         /\ IF ~Makedirs(lipo_dir)
            THEN /\ Exit("OSError")
                 /\ UNCHANGED <<work_dirs, work_libs, trace, ai, ti, arch_build_dirs>>
            ELSE /\ work_dirs' = work_dirs \cup {lipo_dir}
                 /\ arch_build_dirs' = dirs
                 /\ IF ~(lipo_keys \subseteq DOMAIN dirs)
                    THEN /\ Exit("KeyError")
                         /\ trace' = Append(trace, FsRec("makedirs", target_of(ti), lipo_dir))
                         /\ UNCHANGED <<work_libs, ai, ti>>
                    ELSE \E rc \in ReturnCodes :
                           /\ work_libs' =
                                IF rc = 0
                                THEN work_libs \cup {path_join(lipo_dir, lib)}
                                ELSE work_libs
                           /\ LET r == Rec("lipo", "", target_of(ti), "", "", lipo_dir, "",
                                           lipo_inputs(dirs, lib), rc)
                              IN  /\ trace' = trace \o <<FsRec("makedirs", target_of(ti), lipo_dir), r>>
                                  /\ IF local_aborts(rc)
                                     THEN Exit("local") /\ UNCHANGED <<ai, ti>>
                                     ELSE Goto("lipo")
  /\ UNCHANGED <<outdir, device_sdk, simulator_sdk, outdir_arg, env_developer_dir, dev_arg, kwargs, out_subdir, xflags,
                 opencv_root, temp_dir, sdk_dir, sdk_isdir, sdk_files>>

Strip ==
  /\ pc = "strip"
  /\ IF "universal" \notin DOMAIN arch_build_dirs
     THEN /\ Exit("KeyError")
          /\ UNCHANGED <<trace, ai, ti>>
     ELSE \E rc \in ReturnCodes :
            Local(Rec("strip", "", target_of(ti), "", "", arch_build_dirs["universal"],
                      "", <<>>, rc),
                  "strip")
  /\ UNCHANGED <<outdir, device_sdk, simulator_sdk, outdir_arg, env_developer_dir, dev_arg, kwargs, out_subdir, xflags,
                 opencv_root, temp_dir, sdk_dir, sdk_isdir, sdk_files, work_dirs,
                 work_libs, arch_build_dirs, lipo_build_dirs>>

Stage ==
  /\ pc = "stage"
  /\ IF "Release" \notin DOMAIN lipo_build_dirs
     THEN /\ Exit("KeyError")
          /\ UNCHANGED <<trace, ai, ti, sdk_files>>
     ELSE LET lib == libname(target_of(ti))
              libfile == path_join(lipo_build_dirs["Release"], lib)
          IN  IF libfile \notin work_libs
              THEN /\ Exit("IOError")
                   /\ UNCHANGED <<trace, ai, ti, sdk_files>>
              ELSE /\ sdk_files' = sdk_files \cup {path_join("OpenCV", lib)}
                   /\ trace' = Append(trace, FsRec("copy2", target_of(ti), libfile))
                   /\ Goto("stage")
  /\ UNCHANGED <<outdir, device_sdk, simulator_sdk, outdir_arg, env_developer_dir, dev_arg, kwargs, out_subdir, xflags,
                 opencv_root, temp_dir, sdk_dir, sdk_isdir, work_dirs, work_libs,
                 arch_build_dirs, lipo_build_dirs>>

Next ==
  \/ DeveloperDir
  \/ Validate
  \/ Describe
  \/ RevParse
  \/ Mkdtemp
  \/ Assemble
  \/ Clean
  \/ Archive
  \/ ArchClean
  \/ ArchBuild
  \/ Lipo
  \/ Strip
  \/ Stage

Spec == Init /\ [][Next]_vars

-----------------------------------------------------------------------------
(* Vocabulary of the properties, written out independently of the model's  *)
(* operators.                                                              *)

Recs == 1..Len(trace)

ToolchainOps == {"clean", "archive", "build", "lipo", "strip"}

StepOps == ToolchainOps \cup {"copy2"}

StagedLib(target) == "OpenCV/lib" \o target \o ".a"

DeclaredTargets == {"opencv_core", "opencv_imgproc"}

\* The steps of one target, in order: (operation, architecture).
ExpectedSteps ==
  << <<"clean", "">>, <<"archive", "">>,
     <<"clean", "i386">>, <<"build", "i386">>,
     <<"clean", "x86_64">>, <<"build", "x86_64">>,
     <<"lipo", "">>, <<"strip", "">>, <<"copy2", "">> >>

\* The step records of one target, and of all targets, in trace order.
StepSeq(target) ==
  SelectSeq(trace, LAMBDA r : r.target = target /\ r.op \in StepOps)

AllSteps == SelectSeq(trace, LAMBDA r : r.op \in StepOps)

Failed(i) == trace[i].op \in ExternalOps /\ trace[i].rc # 0

-----------------------------------------------------------------------------
\* C1: build called with outdir omitted (None or empty) ends as a configuration
\* abort with exit status 1, and nothing was invoked or touched before it: the
\* trace of invocations and filesystem operations is empty, no temp directory
\* and no destination directory was resolved, made or removed.
C1_OmittedOutdirAbortsClean ==
  (outdir_arg \in {None, ""} /\ pc \notin {"validate", "exited"}) =>
    /\ pc = "aborted"
    /\ abort_kind = "config"
    /\ exit_status = 1
    /\ trace = <<>>
    /\ temp_dir = ""
    /\ sdk_dir = ""
    /\ work_dirs = {}
    /\ work_libs = {}
    /\ (sdk_isdir => sdk_files \in StaleTrees)

C1_Witness ==
  /\ outdir_arg = ""
  /\ pc = "aborted"
  /\ sdk_isdir
  /\ sdk_files # {}

\* C2: when a toolchain invocation made for a target returned non-zero, the
\* destination holds no library file of that target.
C2_FailedTargetNotStaged ==
  \A i \in Recs :
    (trace[i].op \in ToolchainOps /\ trace[i].rc # 0) =>
      StagedLib(trace[i].target) \notin sdk_files

C2_Witness ==
  /\ pc = "aborted"
  /\ \E i \in Recs :
       trace[i].op = "strip" /\ trace[i].rc # 0 /\ trace[i].target = "opencv_imgproc"
  /\ sdk_files = {StagedLib("opencv_core")}

\* C3: a run with outdir set in which every invocation succeeded ends with the
\* destination holding exactly OpenCV/lib<target>.a for each declared target.
C3_ExactlyOneLibPerTarget ==
  (pc = "done" /\ \A i \in Recs : trace[i].rc = 0) =>
    /\ outdir_arg \notin {None, ""}
    /\ sdk_isdir
    /\ sdk_files = {StagedLib(t) : t \in DeclaredTargets}

C3_Witness ==
  /\ pc = "done"
  /\ exit_status = 0
  /\ Cardinality(sdk_files) = 2
  /\ kwargs # <<>>

\* C4: when the destination existed before the run, a successful run leaves in
\* it only files copied by this run, and the removal precedes every copy.
C4_StaleTreeReplaced ==
  (pc = "done" /\ \E i \in Recs : trace[i].op = "rmtree") =>
    /\ \A f \in sdk_files :
         \E i \in Recs : trace[i].op = "copy2" /\ f = StagedLib(trace[i].target)
    /\ "OpenCV/libold.a" \notin sdk_files
    /\ "notes.txt" \notin sdk_files
    /\ \A i \in Recs :
         trace[i].op = "rmtree" => \A j \in Recs : trace[j].op = "copy2" => i < j

C4_Witness ==
  /\ pc = "done"
  /\ \E i \in Recs : trace[i].op = "rmtree"
  /\ sdk_files = {StagedLib(t) : t \in DeclaredTargets}

\* C5: the steps recorded for one target are a prefix of clean, archive,
\* (clean, build) per secondary architecture in declaration order, lipo, strip,
\* copy; each step but the last recorded one returned zero.
C5_StepOrderWithinTarget ==
  \A t \in DeclaredTargets :
    LET steps == StepSeq(t)
    IN  /\ Len(steps) <= Len(ExpectedSteps)
        /\ \A k \in 1..Len(steps) :
             /\ steps[k].op = ExpectedSteps[k][1]
             /\ steps[k].arch = ExpectedSteps[k][2]
             /\ k < Len(steps) => steps[k].rc = 0

C5_Witness ==
  /\ \E i \in Recs : trace[i].op = "copy2" /\ trace[i].target = "opencv_imgproc"
  /\ Len(StepSeq("opencv_imgproc")) = Len(ExpectedSteps)

\* C6: the steps of the targets are not interleaved: the step records of the run
\* are those of the first declared target followed by those of the second, the
\* second target starts only after the copy of the first, and every lipo
\* invocation has exactly 3 inputs.
C6_TargetsInSequence ==
  LET first == StepSeq("opencv_core")
      second == StepSeq("opencv_imgproc")
  IN  /\ AllSteps = first \o second
      /\ second # <<>> =>
           /\ Len(first) = Len(ExpectedSteps)
           /\ first[Len(first)].op = "copy2"
      /\ \A i \in Recs : trace[i].op = "lipo" => Len(trace[i].inputs) = 3

C6_Witness ==
  /\ pc = "done"
  /\ Len(AllSteps) = 2 * Len(ExpectedSteps)
  /\ \E i \in Recs : trace[i].op = "lipo" /\ trace[i].target = "opencv_imgproc"

\* C7: an external invocation that returned non-zero is the last record of the
\* trace, and the run has ended with a non-zero exit status.
C7_FirstFailureEndsRun ==
  \A i \in Recs :
    Failed(i) =>
      /\ i = Len(trace)
      /\ pc = "aborted"
      /\ exit_status # 0
      /\ exit_status # -1

C7_Witness ==
  /\ pc = "aborted"
  /\ Len(trace) > 0
  /\ Failed(Len(trace))
  /\ trace[Len(trace)].op = "build"
  /\ trace[Len(trace)].target = "opencv_core"

\* The names another invocation of build computes for the overrides d, given
\* the version this run was given, under every enumeration order of d.
RunVersions == {v \in {version_str(o, TRUE) : o \in DescribeOutputs} :
                  \E o \in Orders(kwargs) :
                    out_subdir = "opencv_ios_sdk_" \o v \o out_subdir_suffix(kwargs, o)}

NamesFor(d) ==
  {"opencv_ios_sdk_" \o v \o out_subdir_suffix(d, o) : v \in RunVersions, o \in Orders(d)}

\* C8: the output-subdirectory name a run computed is the name every other
\* invocation with the same version and the same overrides computes, whatever
\* the order in which the overrides are enumerated.
C8_NameIndependentOfOrder ==
  sdk_dir # "" => \A n \in NamesFor(kwargs) : n = out_subdir

\* C9: for a fixed version, an invocation with a different override set never
\* computes the output-subdirectory name this run computed.
C9_NameInjective ==
  sdk_dir # "" => \A d \in Overrides \ {kwargs} : out_subdir \notin NamesFor(d)

\* Work paths of a target, written out.
WorkPath(target, leaf) ==
  temp_dir \o "Release/" \o target \o "/" \o target \o "/" \o leaf

InputLibs(target) ==
  {WorkPath(target, leaf) \o "/lib" \o target \o ".a" : leaf \in {"Archive", "i386", "x86_64"}}

\* C10: once the merge step of a target has been reached with one of its input
\* libraries absent, the run has aborted without issuing lipo on the absent
\* file, no universal library exists, and nothing was stripped or copied for
\* that target.
C10_MissingInputAbortsBeforeMerge ==
  \A t \in DeclaredTargets :
    (WorkPath(t, "universal") \in work_dirs /\ ~(InputLibs(t) \subseteq work_libs)) =>
      /\ pc = "aborted"
      /\ (WorkPath(t, "universal") \o "/lib" \o t \o ".a") \notin work_libs
      /\ \A i \in Recs :
           trace[i].target = t => trace[i].op \notin {"lipo", "strip", "copy2"}

\* C11: developer_dir called with a path that does not exist ends the run with
\* exit status 1, leaves env.developer_dir as it was and nothing is invoked
\* afterwards; called with an existing path it sets env.developer_dir to that
\* path, which every later toolchain command runs under, and changes nothing
\* else.
C11_State ==
  /\ dev_arg = None => env_developer_dir = "/Applications/Xcode.app/Contents/Developer"
  /\ dev_arg = "/no/such/Xcode.app" =>
       /\ pc = "exited"
       /\ exit_status = 1
       /\ env_developer_dir = "/Applications/Xcode.app/Contents/Developer"
       /\ trace = <<>>
       /\ temp_dir = ""
       /\ work_dirs = {}
  /\ dev_arg = "/Applications/Xcode6.2.app" =>
       /\ env_developer_dir = dev_arg
       /\ \A i \in Recs :
            trace[i].op \in ToolchainOps => trace[i].DEVELOPER_DIR = dev_arg

C11_DeveloperDir ==
  /\ []C11_State
  /\ [][dev_arg' # dev_arg =>
          UNCHANGED <<outdir_arg, outdir, device_sdk, simulator_sdk, kwargs,
                      out_subdir, xflags, opencv_root, temp_dir, sdk_dir, sdk_isdir,
                      sdk_files, work_dirs, work_libs, ti, ai, arch_build_dirs,
                      lipo_build_dirs, trace>>]_vars

C11_Witness ==
  /\ dev_arg = "/no/such/Xcode.app"
  /\ pc = "exited"
  /\ outdir_arg = "~/sdk"

\* The work directory leaf of an architecture tag.
ExpectedLeaf(arch) == IF arch = "" THEN "Archive" ELSE arch

\* The archive and build records of a target, in trace order.
BuildSeq(target) ==
  SelectSeq(trace, LAMBDA r : r.target = target /\ r.op \in {"archive", "build"})

\* C12: the inputs of a lipo invocation are, in order, the library of the
\* archive step without architecture tag and the library of each declared
\* secondary architecture (i386, x86_64), each with its own tag and in the
\* directory the build of that architecture wrote into; lipo works in the
\* target's universal directory.
C12_LipoInputsAreTheBuilds ==
  \A i \in Recs :
    trace[i].op = "lipo" =>
      LET t == trace[i].target
          builds == BuildSeq(t)
      IN  /\ [k \in 1..Len(builds) |-> builds[k].arch] = <<"", "i386", "x86_64">>
          /\ trace[i].inputs =
               [k \in 1..Len(builds) |->
                  <<builds[k].arch, builds[k].dir \o "/lib" \o t \o ".a">>]
          /\ \A k \in 1..Len(builds) : builds[k].dir = WorkPath(t, ExpectedLeaf(builds[k].arch))
          /\ trace[i].dir = WorkPath(t, "universal")

C12_Witness ==
  \E i \in Recs :
    /\ trace[i].op = "lipo"
    /\ trace[i].target = "opencv_imgproc"
    /\ trace[i].rc = 0
    /\ Len(trace[i].inputs) = 3

\* The directories made for a target, from the makedirs records.
MadeFor(target) ==
  {trace[i].dir : i \in {j \in Recs : trace[j].op = "makedirs" /\ trace[j].target = target}}

\* C13: whenever lipo is invoked for a target, each input lies in a directory
\* made in this run for that target, and the input file is there.
C13_LipoReadsOnlyBuiltLibs ==
  \A i \in Recs :
    trace[i].op = "lipo" =>
      \A k \in 1..Len(trace[i].inputs) :
        /\ \E d \in MadeFor(trace[i].target) :
             trace[i].inputs[k][2] = d \o "/lib" \o trace[i].target \o ".a"
        /\ trace[i].inputs[k][2] \in work_libs

\* The records that make a work subdirectory.
WorkMakedirs == {i \in Recs : trace[i].op = "makedirs" /\ trace[i].target # ""}

\* C14: every work subdirectory is made once, under the temp root of the run,
\* never where a directory already is, after the preceding step returned zero
\* and right before the invocation that writes into it; the directories that
\* exist are those of the steps that were invoked.
C14_WorkDirsMadeOnceOnDemand ==
  /\ abort_kind # "OSError"
  /\ \A i, j \in WorkMakedirs : trace[i].dir = trace[j].dir => i = j
  /\ \A i \in WorkMakedirs :
       /\ temp_dir # ""
       /\ SubSeq(trace[i].dir, 1, Len(temp_dir)) = temp_dir
       /\ i > 1
       /\ trace[i - 1].rc = 0
       /\ i < Len(trace)
       /\ trace[i + 1].op \in {"archive", "build", "lipo"}
       /\ trace[i + 1].dir = trace[i].dir
       /\ trace[i + 1].target = trace[i].target
  /\ work_dirs = {trace[i].dir : i \in WorkMakedirs}
  /\ work_dirs = {trace[i].dir : i \in {j \in Recs : trace[j].op \in {"archive", "build", "lipo"}}}
  /\ work_dirs \subseteq
       {WorkPath(t, leaf) : t \in DeclaredTargets,
                            leaf \in {"Archive", "i386", "x86_64", "universal"}}

C14_Witness ==
  /\ pc = "aborted"
  /\ Cardinality(work_dirs) = 6
  /\ trace[Len(trace)].op = "build"
  /\ trace[Len(trace)].target = "opencv_imgproc"

\* C15: once the destination has been set up, the files in it are the staged
\* libraries of a prefix of the declared targets, and each of them was merged
\* and stripped with return code zero in this run.
C15_StagedIsPrefixOfTargets ==
  sdk_dir # "" =>
    /\ sdk_files \in {{}, {StagedLib("opencv_core")},
                      {StagedLib("opencv_core"), StagedLib("opencv_imgproc")}}
    /\ \A t \in DeclaredTargets :
         StagedLib(t) \in sdk_files =>
           /\ \E i \in Recs : trace[i].op = "lipo" /\ trace[i].target = t /\ trace[i].rc = 0
           /\ \E i \in Recs : trace[i].op = "strip" /\ trace[i].target = t /\ trace[i].rc = 0
           /\ \E i \in Recs : trace[i].op = "copy2" /\ trace[i].target = t

C15_Witness ==
  /\ pc = "aborted"
  /\ sdk_files = {StagedLib("opencv_core")}
  /\ \E i \in Recs : trace[i].op = "rmtree"
  /\ \E i \in Recs : trace[i].op = "lipo" /\ trace[i].target = "opencv_imgproc" /\ trace[i].rc # 0

\* The overrides as name=value definitions, under every enumeration order.
DefinesFor(d) ==
  {IF Len(o) = 0 THEN ""
   ELSE IF Len(o) = 1 THEN o[1] \o "=" \o d[o[1]]
   ELSE o[1] \o "=" \o d[o[1]] \o " " \o o[2] \o "=" \o d[o[2]] : o \in Orders(d)}

\* C16: every build of a secondary architecture carries all the overrides as
\* name=value definitions, and no other invocation carries any.
C16_OverridesOnlyOnArchBuilds ==
  \A i \in Recs :
    IF trace[i].op = "build"
    THEN trace[i].defines \in DefinesFor(kwargs)
    ELSE trace[i].defines = ""

C16_Witness ==
  /\ kwargs = [A |-> "1", B |-> "1_B-1"]
  /\ \E i \in Recs : trace[i].op = "build" /\ trace[i].defines = "B=1_B-1 A=1"
  /\ \E i \in Recs : trace[i].op = "strip"

\* C17: the device SDK appears in no invocation and not in the output
\* directory name: the only SDK an invocation names is the simulator SDK (the
\* one given, or iphonesimulator), on the clean and the build of each
\* secondary architecture.
C17_OnlySimulatorSdkUsed ==
  /\ \A i \in Recs :
       /\ trace[i].sdk =
            IF trace[i].op \in {"clean", "build"} /\ trace[i].arch # ""
            THEN simulator_sdk
            ELSE ""
       /\ trace[i].sdk \in {"", "iphonesimulator", "sim9"}
  /\ sdk_dir # "" =>
       /\ out_subdir \in NamesFor(kwargs)
       /\ sdk_dir = "/home/user/sdk/" \o out_subdir

C17_Witness ==
  /\ device_sdk = "dev9"
  /\ pc = "done"
  /\ \E i \in Recs : trace[i].op = "build" /\ trace[i].sdk = "iphonesimulator"

====
